---- MODULE Spec2Model ----
(***************************************************************************)
(* Model of the database-backed library service of Library_Project:        *)
(* LibraryService (src/app/services.py) over BookRepository,               *)
(* MemberRepository and BorrowRecordRepository (src/app/repositories.py)   *)
(* and the tables of src/app/db_models.py.                                 *)
(*                                                                         *)
(* Spec     : service calls executed one at a time (each call one action). *)
(* SpecConc : service calls run as tasks whose repository steps interleave *)
(*            at the await points.                                         *)
(***************************************************************************)
EXTENDS Integers, Sequences, FiniteSets, TLC

\* ---------------------------------------------------------------- bounds
MaxIsbn == 2        \* isbns are 1..MaxIsbn (opaque keys)
MaxMembers == 2     \* member ids used in calls are 1..MaxMembers
MaxRecords == 2     \* rows the borrow_records table may hold
MaxClock == 2       \* datetime.utcnow() ranges over 1..MaxClock
MaxTasks == 2       \* concurrent service calls in SpecConc

Isbns == 1..MaxIsbn
MemberIds == 1..MaxMembers
Tasks == 1..MaxTasks

\* ------------------------------------------------------------ data model
Statuses == {"available", "borrowed"}
Titles == {<<"1984", "Orwell">>, <<"Dune", "Herbert">>}

\* app.models.Book: every value the pydantic model accepts (status is a free
\* string field whose default is "available").
Book == [isbn : Isbns, title : {"1984", "Dune"}, author : {"Orwell", "Herbert"},
         status : Statuses]

\* The Book values the service is called with.
BookInputs == {b \in Book : <<b.title, b.author>> \in Titles}

\* Outcomes of a service call: a return value or the exception raised.
ErrDuplicate == "ValueError: Bu ISBN zaten mevcut"
ErrNotFound == "ValueError: Kitap bulunamadi"
ErrNotAvailable == "ValueError: Kitap su anda odunc alinamaz"
ErrAlreadyBorrowed == "ValueError: Kitap zaten odunc alinmis"
IntegrityError == "IntegrityError"
MultipleResultsFound == "MultipleResultsFound"

VARIABLES
    books,        \* table books: sequence of BookDB rows in insertion order
    members,      \* table members: set of ids of the MemberDB rows
    records,      \* table borrow_records: sequence of BorrowRecordDB rows
    fk_enforced,  \* whether the engine enforces the declared foreign keys
    last,         \* the last completed service call and its outcome
    tasks,        \* SpecConc: the service calls in flight
    _books,       \* SpecLib: Library._books, the objects of the JSON library
    file          \* SpecLib: the content of the file at Library.json_path

vars == <<books, members, records, fk_enforced, last, tasks, _books, file>>

\* ------------------------------------------------------ engine constraints
\* the primary-key index of table books
HasBook(bs, isbn) == \E k \in DOMAIN bs : bs[k].isbn = isbn

\* --------------------------------------------------------- BookRepository
\* mutant: the lookup finds nothing
Book_get_by_isbn_none(bs, isbn) == <<>>

\* mutant: the WHERE clause is lost, every row matches
Book_get_by_isbn_any(bs, isbn) == bs

\* select(BookDB).where(BookDB.isbn == isbn): the matching rows.
Book_get_by_isbn(bs, isbn) == SelectSeq(bs, LAMBDA r : r.isbn = isbn)

\* mutant: the table has no primary key
Book_create_nopk(bs, book) ==
    [raised |-> FALSE,
     books |-> Append(bs, [isbn |-> book.isbn, title |-> book.title,
                           author |-> book.author, status |-> book.status])]

\* BookDB(...); session.add; commit.  isbn is the primary key.
Book_create(bs, book) ==
    IF HasBook(bs, book.isbn)
    THEN [raised |-> TRUE, books |-> bs]
    ELSE [raised |-> FALSE,
          books |-> Append(bs, [isbn |-> book.isbn, title |-> book.title,
                                author |-> book.author, status |-> book.status])]

\* mutant: the UPDATE is lost
Book_update_status_skip(bs, isbn, status) == bs

\* update(BookDB).where(BookDB.isbn == isbn).values(status=status)
Book_update_status(bs, isbn, status) ==
    [k \in DOMAIN bs |->
        IF bs[k].isbn = isbn THEN [bs[k] EXCEPT !.status = status] ELSE bs[k]]

\* delete(BookDB).where(BookDB.isbn == isbn); borrow_records.isbn references
\* books.isbn with no ON DELETE action.
Book_delete(bs, rs, fk, isbn) ==
    LET hit == HasBook(bs, isbn)
        referenced == \E k \in DOMAIN rs : rs[k].isbn = isbn
    IN  IF hit /\ fk /\ referenced
        THEN [raised |-> TRUE, books |-> bs, rowcount |-> 0]
        ELSE [raised |-> FALSE,
              books |-> SelectSeq(bs, LAMBDA r : r.isbn # isbn),
              rowcount |-> IF hit THEN 1 ELSE 0]

\* BookRepository.to_domain
to_domain(db_book) ==
    [isbn |-> db_book.isbn, title |-> db_book.title,
     author |-> db_book.author, status |-> db_book.status]

\* ------------------------------------------------- BorrowRecordRepository
IsActive(r) == r.return_date = <<>>

\* mutant: the active-loan lookup finds nothing
Borrow_get_active_by_isbn_none(rs, isbn) == <<>>

\* select(BorrowRecordDB).where(isbn == isbn).where(return_date.is_(None))
Borrow_get_active_by_isbn(rs, isbn) ==
    SelectSeq(rs, LAMBDA r : r.isbn = isbn /\ IsActive(r))

\* BorrowRecordDB(member_id, isbn); session.add; commit.  member_id and isbn
\* are foreign keys to members.id and books.isbn.
Borrow_create(rs, bs, ms, fk, member_id, isbn, t) ==
    IF fk /\ (member_id \notin ms \/ ~HasBook(bs, isbn))
    THEN [raised |-> TRUE, records |-> rs]
    ELSE [raised |-> FALSE,
          records |-> Append(rs, [id |-> Len(rs) + 1, member_id |-> member_id,
                                  isbn |-> isbn, borrow_date |-> t,
                                  return_date |-> <<>>])]

\* mutant: the member_id filter is missing
Borrow_matching_any_member(rs, member_id, isbn) ==
    {k \in DOMAIN rs : rs[k].isbn = isbn /\ IsActive(rs[k])}

\* rows the UPDATE of BorrowRecordRepository.return_book matches
Borrow_matching(rs, member_id, isbn) ==
    {k \in DOMAIN rs : rs[k].member_id = member_id /\ rs[k].isbn = isbn
                       /\ IsActive(rs[k])}

\* mutant: the UPDATE lacks return_date IS NULL and stamps closed rows again
Borrow_return_book_restamp(rs, member_id, isbn, t) ==
    [records |-> [k \in DOMAIN rs |->
                    IF rs[k].member_id = member_id /\ rs[k].isbn = isbn
                    THEN [rs[k] EXCEPT !.return_date = <<t>>] ELSE rs[k]],
     rowcount |-> Cardinality({k \in DOMAIN rs :
                    rs[k].member_id = member_id /\ rs[k].isbn = isbn})]

\* mutant: rows are counted but return_date is not written
Borrow_return_book_nostamp(rs, member_id, isbn, t) ==
    [records |-> rs,
     rowcount |-> Cardinality({k \in DOMAIN rs :
                    rs[k].member_id = member_id /\ rs[k].isbn = isbn
                    /\ IsActive(rs[k])})]

\* update(BorrowRecordDB).where(member_id).where(isbn)
\*   .where(return_date.is_(None)).values(return_date=datetime.utcnow())
Borrow_return_book(rs, member_id, isbn, t) ==
    [records |-> [k \in DOMAIN rs |->
                    IF k \in Borrow_matching(rs, member_id, isbn)
                    THEN [rs[k] EXCEPT !.return_date = <<t>>] ELSE rs[k]],
     rowcount |-> Cardinality(Borrow_matching(rs, member_id, isbn))]

\* ------------------------------------------------------- MemberRepository
\* MemberDB(name); session.add; commit: the engine assigns the next id.
Member_create(ms) == ms \cup {Cardinality(ms) + 1}

\* ------------------------------------------------------------------ clock
Max(S) == CHOOSE x \in S : \A y \in S : y <= x

\* the latest timestamp stored so far
Latest(rs) ==
    Max({1} \cup {rs[k].borrow_date : k \in DOMAIN rs}
            \cup {rs[k].return_date[1] :
                    k \in {j \in DOMAIN rs : rs[j].return_date # <<>>}})

\* datetime.utcnow(): the values a call may read, the clock never going back
utcnow(rs) == Latest(rs)..MaxClock

\* ---------------------------------------------------------------- helpers
\* the file at json_path: <<>> while os.path.exists(filename) is false,
\* <<content>> once it was written
NoFile == <<>>

Call(op, result) == [op |-> op, result |-> result]
IdleTask == [pc |-> "idle", op |-> "none", member_id |-> 0, isbn |-> 0,
             book |-> <<>>, result |-> "none", fresh |-> FALSE, overlap |-> {}]

Init ==
    /\ books = <<>>
    /\ members = {}
    /\ records = <<>>
    /\ fk_enforced \in BOOLEAN
    /\ last = Call("none", "none")
    /\ tasks = [t \in Tasks |-> IdleTask]
    /\ _books = <<>>
    /\ file = NoFile

\* ------------------------------------------- LibraryService, one at a time
\* LibraryService.add_book
add_book(book) ==
    LET existing == Book_get_by_isbn(books, book.isbn)
        c == Book_create(books, book)
    IN  /\ IF existing # <<>>
           THEN /\ last' = Call("add_book", ErrDuplicate)
                /\ UNCHANGED books
           ELSE IF c.raised
           THEN /\ last' = Call("add_book", IntegrityError)
                /\ UNCHANGED books
           ELSE /\ books' = c.books
                /\ last' = Call("add_book", "Book")
        /\ UNCHANGED <<members, records, fk_enforced, tasks, _books, file>>

\* LibraryService.get_book: the Optional[Book] it returns (<<>> is None)
get_book_value(bs, isbn) ==
    LET db_book == Book_get_by_isbn(bs, isbn)
    IN  IF db_book # <<>> THEN <<to_domain(db_book[1])>> ELSE <<>>

get_book(isbn) ==
    /\ last' = Call("get_book",
                    IF get_book_value(books, isbn) # <<>> THEN "Book" ELSE "None")
    /\ UNCHANGED <<books, members, records, fk_enforced, tasks, _books, file>>

\* LibraryService.delete_book
delete_book(isbn) ==
    LET d == Book_delete(books, records, fk_enforced, isbn)
    IN  /\ books' = d.books
        /\ last' = Call("delete_book",
                        IF d.raised THEN IntegrityError
                        ELSE IF d.rowcount > 0 THEN "True" ELSE "False")
        /\ UNCHANGED <<members, records, fk_enforced, tasks, _books, file>>

\* LibraryService.borrow_book
borrow_book(member_id, isbn, now) ==
    LET db_book == Book_get_by_isbn(books, isbn)
        existing_record == Borrow_get_active_by_isbn(records, isbn)
        c == Borrow_create(records, books, members, fk_enforced, member_id,
                           isbn, now)
        fail(e) == /\ last' = Call("borrow_book", e)
                   /\ UNCHANGED <<books, records>>
    IN  /\ IF db_book = <<>> THEN fail(ErrNotFound)
           ELSE IF db_book[1].status # "available" THEN fail(ErrNotAvailable)
           ELSE IF Len(existing_record) > 1 THEN fail(MultipleResultsFound)
           ELSE IF existing_record # <<>> THEN fail(ErrAlreadyBorrowed)
           ELSE IF c.raised THEN fail(IntegrityError)
           ELSE /\ Len(records) < MaxRecords
                /\ records' = c.records
                /\ books' = Book_update_status(books, isbn, "borrowed")
                /\ last' = Call("borrow_book", "True")
        /\ UNCHANGED <<members, fk_enforced, tasks, _books, file>>

\* LibraryService.return_book
return_book(member_id, isbn, now) ==
    LET db_book == Book_get_by_isbn(books, isbn)
        u == Borrow_return_book(records, member_id, isbn, now)
        success == u.rowcount > 0
    IN  /\ IF db_book = <<>>
           THEN /\ last' = Call("return_book", ErrNotFound)
                /\ UNCHANGED <<books, records>>
           ELSE /\ records' = u.records
                /\ books' = IF success
                            THEN Book_update_status(books, isbn, "available")
                            ELSE books
                /\ last' = Call("return_book",
                                IF success THEN "True" ELSE "False")
        /\ UNCHANGED <<members, fk_enforced, tasks, _books, file>>

\* mutant: return_book also refuses a book whose status is not "borrowed"
return_book_value_needs_borrowed(bs, rs, member_id, isbn, now) ==
    LET db_book == Book_get_by_isbn(bs, isbn)
        u == Borrow_return_book(rs, member_id, isbn, now)
        success == u.rowcount > 0
    IN  IF db_book = <<>>
        THEN [result |-> ErrNotFound, books |-> bs, records |-> rs]
        ELSE IF db_book[1].status # "borrowed"
        THEN [result |-> ErrNotAvailable, books |-> bs, records |-> rs]
        ELSE [result |-> IF success THEN "True" ELSE "False",
              books |-> IF success
                        THEN Book_update_status(bs, isbn, "available")
                        ELSE bs,
              records |-> u.records]

\* LibraryService.return_book as a function of the tables: the value returned
\* or the error raised, and the tables afterwards
return_book_value(bs, rs, member_id, isbn, now) ==
    LET db_book == Book_get_by_isbn(bs, isbn)
        u == Borrow_return_book(rs, member_id, isbn, now)
        success == u.rowcount > 0
    IN  IF db_book = <<>>
        THEN [result |-> ErrNotFound, books |-> bs, records |-> rs]
        ELSE [result |-> IF success THEN "True" ELSE "False",
              books |-> IF success
                        THEN Book_update_status(bs, isbn, "available")
                        ELSE bs,
              records |-> u.records]

\* MemberRepository.create, as POST /members calls it
create_member ==
    /\ Cardinality(members) < MaxMembers
    /\ members' = Member_create(members)
    /\ UNCHANGED <<books, records, fk_enforced, last, tasks, _books, file>>

Next ==
    \/ \E book \in BookInputs : add_book(book)
    \/ \E isbn \in Isbns : get_book(isbn)
    \/ \E isbn \in Isbns : delete_book(isbn)
    \/ \E member_id \in MemberIds, isbn \in Isbns, t \in utcnow(records) :
            borrow_book(member_id, isbn, t)
    \/ \E member_id \in MemberIds, isbn \in Isbns, t \in utcnow(records) :
            return_book(member_id, isbn, t)
    \/ create_member

Spec == Init /\ [][Next]_vars

\* ------------------------------- LibraryService, calls interleaved (tasks)
\* Every request has its own session; each awaited repository call is one
\* committed statement, and other calls may run between two of them.
InFlight(t) == tasks[t].pc \notin {"idle", "done"}

\* the call of task t begins with its first awaited statement
Begin(t, op, member_id, isbn, pc, result) ==
    [u \in Tasks |->
        IF u = t
        THEN [pc |-> pc, op |-> op, member_id |-> member_id, isbn |-> isbn,
              book |-> <<>>, result |-> result,
              fresh |-> /\ HasBook(books, isbn)
                        /\ \A k \in DOMAIN books :
                              books[k].isbn = isbn => books[k].status = "available"
                        /\ \A k \in DOMAIN records :
                              records[k].isbn = isbn => records[k].return_date # <<>>,
              overlap |-> {v \in Tasks : InFlight(v)}]
        ELSE IF InFlight(u)
        THEN [tasks[u] EXCEPT !.overlap = @ \cup {t}]
        ELSE tasks[u]]

Goto(t, pc) == [tasks EXCEPT ![t].pc = pc]
Done(t, result) == [tasks EXCEPT ![t].pc = "done", ![t].result = result]

\* borrow_book: db_book = await self.book_repo.get_by_isbn(isbn) and the
\* two checks on it
borrow_get_by_isbn(t, member_id, isbn) ==
    LET db_book == Book_get_by_isbn(books, isbn)
    IN  /\ tasks[t].pc = "idle"
        /\ tasks' = IF db_book = <<>>
                    THEN Begin(t, "borrow_book", member_id, isbn, "done", ErrNotFound)
                    ELSE IF db_book[1].status # "available"
                    THEN Begin(t, "borrow_book", member_id, isbn, "done",
                               ErrNotAvailable)
                    ELSE Begin(t, "borrow_book", member_id, isbn,
                               "get_active_by_isbn", "none")
        /\ UNCHANGED <<books, members, records, fk_enforced, last, _books, file>>

\* borrow_book: existing_record = await self.borrow_repo.get_active_by_isbn
borrow_get_active_by_isbn(t) ==
    LET existing_record == Borrow_get_active_by_isbn(records, tasks[t].isbn)
    IN  /\ tasks[t].pc = "get_active_by_isbn"
        /\ tasks' = IF Len(existing_record) > 1
                    THEN Done(t, MultipleResultsFound)
                    ELSE IF existing_record # <<>>
                    THEN Done(t, ErrAlreadyBorrowed)
                    ELSE Goto(t, "create")
        /\ UNCHANGED <<books, members, records, fk_enforced, last, _books, file>>

\* borrow_book: await self.borrow_repo.create(member_id, isbn)
borrow_create(t, now) ==
    LET c == Borrow_create(records, books, members, fk_enforced,
                           tasks[t].member_id, tasks[t].isbn, now)
    IN  /\ tasks[t].pc = "create"
        /\ records' = c.records
        /\ tasks' = IF c.raised THEN Done(t, IntegrityError)
                    ELSE Goto(t, "update_status_borrowed")
        /\ UNCHANGED <<books, members, fk_enforced, last, _books, file>>

\* borrow_book: await self.book_repo.update_status(isbn, "borrowed")
borrow_update_status(t) ==
    /\ tasks[t].pc = "update_status_borrowed"
    /\ books' = Book_update_status(books, tasks[t].isbn, "borrowed")
    /\ tasks' = Done(t, "True")
    /\ UNCHANGED <<members, records, fk_enforced, last, _books, file>>

\* return_book: db_book = await self.book_repo.get_by_isbn(isbn)
return_get_by_isbn(t, member_id, isbn) ==
    LET db_book == Book_get_by_isbn(books, isbn)
    IN  /\ tasks[t].pc = "idle"
        /\ tasks' = IF db_book = <<>>
                    THEN Begin(t, "return_book", member_id, isbn, "done", ErrNotFound)
                    ELSE Begin(t, "return_book", member_id, isbn, "return_book",
                               "none")
        /\ UNCHANGED <<books, members, records, fk_enforced, last, _books, file>>

\* return_book: success = await self.borrow_repo.return_book(member_id, isbn)
return_mark_returned(t, now) ==
    LET u == Borrow_return_book(records, tasks[t].member_id, tasks[t].isbn, now)
    IN  /\ tasks[t].pc = "return_book"
        /\ records' = u.records
        /\ tasks' = IF u.rowcount > 0 THEN Goto(t, "update_status_available")
                    ELSE Done(t, "False")
        /\ UNCHANGED <<books, members, fk_enforced, last, _books, file>>

\* return_book: await self.book_repo.update_status(isbn, "available")
return_update_status(t) ==
    /\ tasks[t].pc = "update_status_available"
    /\ books' = Book_update_status(books, tasks[t].isbn, "available")
    /\ tasks' = Done(t, "True")
    /\ UNCHANGED <<members, records, fk_enforced, last, _books, file>>

\* add_book: existing = await self.book_repo.get_by_isbn(book.isbn)
add_get_by_isbn(t, book) ==
    LET existing == Book_get_by_isbn(books, book.isbn)
        begun(pc, result) ==
            [Begin(t, "add_book", 0, book.isbn, pc, result)
                EXCEPT ![t].book = <<book>>]
    IN  /\ tasks[t].pc = "idle"
        /\ tasks' = IF existing # <<>> THEN begun("done", ErrDuplicate)
                    ELSE begun("create_book", "none")
        /\ UNCHANGED <<books, members, records, fk_enforced, last, _books, file>>

\* add_book: db_book = await self.book_repo.create(book)
add_create(t) ==
    LET c == Book_create(books, tasks[t].book[1])
    IN  /\ tasks[t].pc = "create_book"
        /\ books' = c.books
        /\ tasks' = IF c.raised THEN Done(t, IntegrityError)
                    ELSE Done(t, "Book")
        /\ UNCHANGED <<members, records, fk_enforced, last, _books, file>>

\* the tasks start on a catalog of available books, the first isbns, and on
\* registered members
InitConc ==
    /\ \E n \in 0..MaxIsbn :
          books = [isbn \in 1..n |->
                      [isbn |-> isbn, title |-> "1984", author |-> "Orwell",
                       status |-> "available"]]
    /\ members = 1..MaxMembers
    /\ records = <<>>
    /\ fk_enforced \in BOOLEAN
    /\ last = Call("none", "none")
    /\ tasks = [t \in Tasks |-> IdleTask]
    /\ _books = <<>>
    /\ file = NoFile

NextConc ==
    \/ \E t \in Tasks, member_id \in MemberIds, isbn \in Isbns :
            borrow_get_by_isbn(t, member_id, isbn)
    \/ \E t \in Tasks : borrow_get_active_by_isbn(t)
    \/ \E t \in Tasks, now \in utcnow(records) : borrow_create(t, now)
    \/ \E t \in Tasks : borrow_update_status(t)
    \/ \E t \in Tasks, member_id \in MemberIds, isbn \in Isbns :
            return_get_by_isbn(t, member_id, isbn)
    \/ \E t \in Tasks, now \in utcnow(records) : return_mark_returned(t, now)
    \/ \E t \in Tasks : return_update_status(t)
    \/ \E t \in Tasks, book \in BookInputs : add_get_by_isbn(t, book)
    \/ \E t \in Tasks : add_create(t)

SpecConc == InitConc /\ [][NextConc]_vars

\* ------------------------------------------------------ openlibrary.py
\* What OpenLibrary answers to the requests of one fetch: the response to
\* GET /isbn/{isbn}.json and, when the book names an author key, the response
\* to GET {author_key}.json.
IsbnResponses == {"404", "RequestError", "HTTPStatusError", "JSONDecodeError", "ok"}
AuthorCases == {"no authors", "empty key", "RequestError", "JSONDecodeError",
                "no name", "name"}
Upstreams ==
    [isbn_response : IsbnResponses \ {"ok"}, has_title : {FALSE},
     author : {"no authors"}]
    \cup [isbn_response : {"ok"}, has_title : BOOLEAN, author : AuthorCases]

ErrUnreachable == "ValueError: Internet baglantisi yok veya API'ye ulasilamiyor"
ErrUnexpected == "ValueError: Beklenmeyen hata"
BilinmeyenBaslik == "Bilinmeyen Baslik"
BilinmeyenYazar == "Bilinmeyen Yazar"

\* mutant: a lookup that is not found yields a book of placeholders
fetch_book_from_api_placeholder(isbn, up) ==
    IF up.isbn_response = "RequestError"
    THEN [raised |-> TRUE, error |-> ErrUnreachable]
    ELSE IF up.isbn_response = "JSONDecodeError"
    THEN [raised |-> TRUE, error |-> "JSONDecodeError"]
    ELSE IF up.isbn_response = "HTTPStatusError"
    THEN [raised |-> TRUE, error |-> ErrUnexpected]
    ELSE [raised |-> FALSE,
          book |-> [isbn |-> isbn,
                    title |-> IF up.has_title THEN "1984" ELSE BilinmeyenBaslik,
                    author |-> IF up.author = "name" THEN "Orwell"
                               ELSE BilinmeyenYazar,
                    status |-> "available"]]

\* fetch_book_from_api: the Book it returns or the ValueError it raises
fetch_book_from_api(isbn, up) ==
    IF up.isbn_response = "404"
    THEN [raised |-> TRUE, error |-> ErrNotFound]
    ELSE IF up.isbn_response = "RequestError"
    THEN [raised |-> TRUE, error |-> ErrUnreachable]
    ELSE IF up.isbn_response = "JSONDecodeError"
    THEN [raised |-> TRUE, error |-> "JSONDecodeError"]
    ELSE IF up.isbn_response = "HTTPStatusError"
    THEN [raised |-> TRUE, error |-> ErrUnexpected]
    ELSE [raised |-> FALSE,
          book |-> [isbn |-> isbn,
                    title |-> IF up.has_title THEN "1984" ELSE BilinmeyenBaslik,
                    author |-> IF up.author = "name" THEN "Orwell"
                               ELSE BilinmeyenYazar,
                    status |-> "available"]]

\* ----------------------------------------------------------------- api.py
\* the exceptions that are ValueError instances
ValueErrors == {ErrDuplicate, ErrNotFound, ErrNotAvailable, ErrAlreadyBorrowed,
                ErrUnreachable, ErrUnexpected, "JSONDecodeError"}

\* POST /books: the status answered for an outcome of the handler body
add_book_status(outcome) == IF outcome = "Book" THEN 200 ELSE 400

\* POST /borrow: the status answered for an outcome of service.borrow_book
borrow_book_status(outcome) ==
    IF outcome = "True" THEN 200
    ELSE IF outcome \in ValueErrors THEN 400
    ELSE 500

\* POST /return: the status answered for an outcome of service.return_book
return_book_status(outcome) ==
    IF outcome \in ValueErrors THEN 400
    ELSE IF outcome = "False" THEN 404
    ELSE IF outcome = "True" THEN 200
    ELSE 500

Response(op, status, detail, calls) ==
    [op |-> op, status |-> status, result |-> detail, calls |-> calls]

\* POST /books
post_books(isbn, up) ==
    LET f == fetch_book_from_api(isbn, up)
        existing == Book_get_by_isbn(books, isbn)
        c == Book_create(books, f.book)
        answer(outcome, calls) ==
            last' = Response("POST /books", add_book_status(outcome), outcome,
                             calls)
    IN  /\ IF f.raised
           THEN /\ answer(f.error, <<>>)
                /\ UNCHANGED books
           ELSE IF existing # <<>>
           THEN /\ answer(ErrDuplicate, <<"add_book">>)
                /\ UNCHANGED books
           ELSE IF c.raised
           THEN /\ answer(IntegrityError, <<"add_book">>)
                /\ UNCHANGED books
           ELSE /\ books' = c.books
                /\ answer("Book", <<"add_book">>)
        /\ UNCHANGED <<members, records, fk_enforced, tasks, _books, file>>

\* DELETE /books/{isbn}
delete_books(isbn) ==
    LET d == Book_delete(books, records, fk_enforced, isbn)
    IN  /\ books' = d.books
        /\ last' = IF d.raised
                   THEN Response("DELETE /books", 500, IntegrityError,
                                 <<"delete_book">>)
                   ELSE IF d.rowcount > 0
                   THEN Response("DELETE /books", 200, "True", <<"delete_book">>)
                   ELSE Response("DELETE /books", 404, "False", <<"delete_book">>)
        /\ UNCHANGED <<members, records, fk_enforced, tasks, _books, file>>

NextApi ==
    \/ \E isbn \in Isbns, up \in Upstreams : post_books(isbn, up)
    \/ \E isbn \in Isbns : delete_books(isbn)

SpecApi == Init /\ [][NextApi]_vars

\* ------------------------------------------------------- list queries
\* the characters of the titles and authors (strings are read by character
\* in the LIKE match)
Chars(s) ==
    CASE s = "1984" -> <<"1", "9", "8", "4">>
      [] s = "Dune" -> <<"D", "u", "n", "e">>
      [] s = "Orwell" -> <<"O", "r", "w", "e", "l", "l">>
      [] s = "Herbert" -> <<"H", "e", "r", "b", "e", "r", "t">>

\* the filter strings of the calls: "oR" and "_"
FilterTexts == {<<"o", "R">>, <<"_">>}

\* Optional arguments: <<>> is None, <<x>> is the value x
Optional(S) == {<<>>} \cup {<<x>> : x \in S}

LowerChar(ch) ==
    CASE ch = "D" -> "d" [] ch = "H" -> "h" [] ch = "O" -> "o"
      [] ch = "R" -> "r" [] OTHER -> ch
lower(text) == [i \in DOMAIN text |-> LowerChar(text[i])]

Min(a, b) == IF a <= b THEN a ELSE b

\* SQL LIKE: % matches any run of characters, _ any one character
RECURSIVE Like(_, _)
Like(text, pattern) ==
    IF pattern = <<>> THEN text = <<>>
    ELSE IF Head(pattern) = "%"
    THEN Like(text, Tail(pattern)) \/ (text # <<>> /\ Like(Tail(text), pattern))
    ELSE IF Head(pattern) = "_"
    THEN text # <<>> /\ Like(Tail(text), Tail(pattern))
    ELSE /\ text # <<>> /\ Head(text) = Head(pattern)
         /\ Like(Tail(text), Tail(pattern))

\* column.ilike(f"%{value}%")
ilike(column, value) ==
    Like(lower(Chars(column)), lower(<<"%">> \o value \o <<"%">>))

\* the engine behind the session: the configured PostgreSQL enforces the
\* foreign keys, the SQLite of the tests does not
Engine == IF fk_enforced THEN "postgresql" ELSE "sqlite"

Orderings(S) ==
    {p \in [1..Cardinality(S) -> S] :
        \A i, j \in 1..Cardinality(S) : p[i] = p[j] => i = j}

\* The orders in which a SELECT without ORDER BY may yield the rows of books:
\* SQLite scans by rowid, the insertion order; PostgreSQL scans the heap,
\* where every UPDATE of a row writes a new version of it elsewhere.
Book_scan(bs, engine) ==
    IF engine = "sqlite" THEN {bs}
    ELSE {[k \in DOMAIN bs |-> bs[p[k]]] : p \in Orderings(DOMAIN bs)}

\* query.offset(skip).limit(limit)
Page(rows, skip, limit) == SubSeq(rows, skip + 1, Min(skip + limit, Len(rows)))

\* BookRepository.get_all on the rows as the engine yields them
Book_get_all(scan, skip, limit, author, title, status) ==
    LET hit(r) ==
            /\ (author # <<>> /\ author[1] # <<>>) => ilike(r.author, author[1])
            /\ (title # <<>> /\ title[1] # <<>>) => ilike(r.title, title[1])
            /\ (status # <<>> /\ status[1] # "") => r.status = status[1]
    IN  Page(SelectSeq(scan, hit), skip, limit)

\* LibraryService.get_books
get_books(skip, limit, author, title, status) ==
    /\ \E scan \in Book_scan(books, Engine) :
          LET db_books == Book_get_all(scan, skip, limit, author, title, status)
          IN  last' = [op |-> "get_books", skip |-> skip, limit |-> limit,
                       author |-> author, title |-> title, status |-> status,
                       result |-> [k \in DOMAIN db_books |->
                                      to_domain(db_books[k])]]
    /\ UNCHANGED <<books, members, records, fk_enforced, tasks, _books, file>>

\* the catalogs the queries run on: books of distinct isbns
Catalogs ==
    {bs \in UNION {[1..n -> BookInputs] : n \in 0..MaxIsbn} :
        \A i, j \in DOMAIN bs : bs[i].isbn = bs[j].isbn => i = j}

InitBookQuery ==
    /\ books \in Catalogs
    /\ members = {}
    /\ records = <<>>
    /\ fk_enforced \in BOOLEAN
    /\ last = Call("none", "none")
    /\ tasks = [t \in Tasks |-> IdleTask]
    /\ _books = <<>>
    /\ file = NoFile

NextBookQuery ==
    \E skip \in 0..(MaxIsbn - 1), limit \in 1..MaxIsbn,
       author \in Optional(FilterTexts), title \in Optional(FilterTexts),
       status \in Optional(Statuses) :
        get_books(skip, limit, author, title, status)

SpecBookQuery == InitBookQuery /\ [][NextBookQuery]_vars

\* mutant: the count leaves the status filter out
Book_count_nostatus(bs, author, title, status) ==
    LET hit(r) ==
            /\ (author # <<>> /\ author[1] # <<>>) => ilike(r.author, author[1])
            /\ (title # <<>> /\ title[1] # <<>>) => ilike(r.title, title[1])
    IN  Len(SelectSeq(bs, hit))

\* BookRepository.count: select(func.count(BookDB.isbn)) under the filters
Book_count(bs, author, title, status) ==
    LET hit(r) ==
            /\ (author # <<>> /\ author[1] # <<>>) => ilike(r.author, author[1])
            /\ (title # <<>> /\ title[1] # <<>>) => ilike(r.title, title[1])
            /\ (status # <<>> /\ status[1] # "") => r.status = status[1]
    IN  Len(SelectSeq(bs, hit))

\* GET /books: service.get_books, then service.count_books for the same
\* filters, answered as items and total
api_get_books(skip, limit, author, title, status) ==
    /\ \E scan \in Book_scan(books, Engine) :
          LET db_books == Book_get_all(scan, skip, limit, author, title, status)
              total == Book_count(books, author, title, status)
          IN  last' = [op |-> "GET /books", skip |-> skip, limit |-> limit,
                       author |-> author, title |-> title, status |-> status,
                       items |-> [k \in DOMAIN db_books |->
                                     to_domain(db_books[k])],
                       total |-> total]
    /\ UNCHANGED <<books, members, records, fk_enforced, tasks, _books, file>>

NextBookPage ==
    \E skip \in 0..(MaxIsbn - 1), limit \in 1..MaxIsbn,
       author \in Optional(FilterTexts), title \in Optional(FilterTexts),
       status \in Optional(Statuses) :
        api_get_books(skip, limit, author, title, status)

SpecBookPage == InitBookQuery /\ [][NextBookPage]_vars

\* mutant: the rows come back oldest first
order_by_borrow_date_asc(rows) ==
    {[k \in DOMAIN rows |-> rows[p[k]]] : p \in
        {q \in Orderings(DOMAIN rows) :
            \A i, j \in DOMAIN rows :
                i < j => rows[q[i]].borrow_date <= rows[q[j]].borrow_date}}

\* query.order_by(BorrowRecordDB.borrow_date.desc()): the orders the engine
\* may yield, rows of equal borrow_date in any order
order_by_borrow_date_desc(rows) ==
    {[k \in DOMAIN rows |-> rows[p[k]]] : p \in
        {q \in Orderings(DOMAIN rows) :
            \A i, j \in DOMAIN rows :
                i < j => rows[q[i]].borrow_date >= rows[q[j]].borrow_date}}

\* BorrowRecordRepository.get_by_member_id: the lists it may return
Borrow_get_by_member_id(rs, member_id, active_only) ==
    order_by_borrow_date_desc(
        SelectSeq(rs, LAMBDA r : /\ r.member_id = member_id
                                 /\ active_only => r.return_date = <<>>))

\* BorrowRecordRepository.get_by_isbn: the lists it may return
Borrow_get_by_isbn(rs, isbn, active_only) ==
    order_by_borrow_date_desc(
        SelectSeq(rs, LAMBDA r : /\ r.isbn = isbn
                                 /\ active_only => r.return_date = <<>>))

get_by_member_id(member_id, active_only) ==
    /\ \E out \in Borrow_get_by_member_id(records, member_id, active_only) :
          last' = [op |-> "get_by_member_id", key |-> member_id,
                   active_only |-> active_only, result |-> out]
    /\ UNCHANGED <<books, members, records, fk_enforced, tasks, _books, file>>

get_by_isbn(isbn, active_only) ==
    /\ \E out \in Borrow_get_by_isbn(records, isbn, active_only) :
          last' = [op |-> "get_by_isbn", key |-> isbn,
                   active_only |-> active_only, result |-> out]
    /\ UNCHANGED <<books, members, records, fk_enforced, tasks, _books, file>>

\* the rows a borrow record may be: borrowed at some time, returned not
\* before that or not yet
BorrowRows ==
    {r \in [member_id : MemberIds, isbn : Isbns, borrow_date : 1..MaxClock,
            return_date : Optional(1..MaxClock)] :
        r.return_date # <<>> => r.return_date[1] >= r.borrow_date}

\* the ledgers the queries run on: ids in insertion order, the clock never
\* going back from one insert to the next
Ledgers ==
    {[k \in DOMAIN rs |->
        [id |-> k, member_id |-> rs[k].member_id, isbn |-> rs[k].isbn,
         borrow_date |-> rs[k].borrow_date,
         return_date |-> rs[k].return_date]] :
     rs \in {x \in UNION {[1..n -> BorrowRows] : n \in 0..MaxRecords} :
                \A i, j \in DOMAIN x :
                    i < j => x[i].borrow_date <= x[j].borrow_date}}

InitBorrowQuery ==
    /\ books = [isbn \in Isbns |->
                  [isbn |-> isbn, title |-> "1984", author |-> "Orwell",
                   status |-> "available"]]
    /\ members = 1..MaxMembers
    /\ records \in Ledgers
    /\ fk_enforced \in BOOLEAN
    /\ last = Call("none", "none")
    /\ tasks = [t \in Tasks |-> IdleTask]
    /\ _books = <<>>
    /\ file = NoFile

NextBorrowQuery ==
    \/ \E member_id \in MemberIds, active_only \in BOOLEAN :
          get_by_member_id(member_id, active_only)
    \/ \E isbn \in Isbns, active_only \in BOOLEAN :
          get_by_isbn(isbn, active_only)

SpecBorrowQuery == InitBorrowQuery /\ [][NextBorrowQuery]_vars

\* ------------------------------------------------------------- library.py
\* the objects of library.py: Book(title, author, isbn) and its subclasses
\* EBook(..., file_format) and AudioBook(..., duration_in_minutes)
LibBook(title, author, isbn) ==
    [class |-> "Book", title |-> title, author |-> author, isbn |-> isbn,
     is_borrowed |-> FALSE]
EBook(title, author, isbn, file_format) ==
    [class |-> "EBook", title |-> title, author |-> author, isbn |-> isbn,
     is_borrowed |-> FALSE, file_format |-> file_format]
AudioBook(title, author, isbn, duration_in_minutes) ==
    [class |-> "AudioBook", title |-> title, author |-> author, isbn |-> isbn,
     is_borrowed |-> FALSE, duration |-> duration_in_minutes]

\* the books handed to Library.add_book
LibInputs ==
    {LibBook("The Lord of the Rings", "J.R.R. Tolkien", isbn) : isbn \in Isbns}
    \cup {EBook("1984", "George Orwell", isbn, f) :
            isbn \in Isbns, f \in {"EPUB", "PDF"}}
    \cup {AudioBook("Becoming", "Michelle Obama", isbn, d) :
            isbn \in Isbns, d \in {45, 780}}

\* Book.to_dict and its overrides in EBook and AudioBook
to_dict(book) ==
    LET data == [type |-> book.class, title |-> book.title,
                 author |-> book.author, isbn |-> book.isbn,
                 is_borrowed |-> book.is_borrowed]
    IN  IF book.class = "EBook"
        THEN [type |-> data.type, title |-> data.title, author |-> data.author,
              isbn |-> data.isbn, is_borrowed |-> data.is_borrowed,
              file_format |-> book.file_format]
        ELSE IF book.class = "AudioBook"
        THEN [type |-> data.type, title |-> data.title, author |-> data.author,
              isbn |-> data.isbn, is_borrowed |-> data.is_borrowed,
              duration |-> book.duration]
        ELSE data

\* json.dump of one dict: str values become JSON strings, bool values the
\* literals true and false, int values JSON numbers
json_dump(data) ==
    [key \in DOMAIN data |->
        IF key = "is_borrowed"
        THEN [json |-> IF data[key] THEN "true" ELSE "false", text |-> "",
              number |-> 0]
        ELSE IF key = "duration"
        THEN [json |-> "number", text |-> "", number |-> data[key]]
        ELSE [json |-> "string", text |-> data[key], number |-> 0]]

\* json.load of one object: the Python value of every member
json_load(object) ==
    [key \in DOMAIN object |->
        IF object[key].json = "string" THEN object[key].text
        ELSE IF object[key].json = "number" THEN object[key].number
        ELSE object[key].json = "true"]

\* Library.save_to_json: the file after the call
save_to_json_value(bs) == <<[k \in DOMAIN bs |-> json_dump(to_dict(bs[k]))]>>

\* mutant: every entry builds a plain Book, whatever its type
load_entry_plain(data) ==
    LET book == LibBook(data.title, data.author, data.isbn)
    IN  IF "is_borrowed" \in DOMAIN data /\ data.is_borrowed
        THEN [book EXCEPT !.is_borrowed = TRUE]
        ELSE book

\* mutant: the is_borrowed flag of the entries is not restored
load_entry_not_borrowed(data) ==
    LET book_type == IF "type" \in DOMAIN data THEN data.type ELSE "Book"
    IN  IF book_type = "EBook"
        THEN EBook(data.title, data.author, data.isbn, data.file_format)
        ELSE IF book_type = "AudioBook"
        THEN AudioBook(data.title, data.author, data.isbn, data.duration)
        ELSE LibBook(data.title, data.author, data.isbn)

\* Library.load_from_json, the body of its loop: the object built from one
\* entry of the file
load_entry(data) ==
    LET book_type == IF "type" \in DOMAIN data THEN data.type ELSE "Book"
        book == IF book_type = "EBook"
                THEN EBook(data.title, data.author, data.isbn, data.file_format)
                ELSE IF book_type = "AudioBook"
                THEN AudioBook(data.title, data.author, data.isbn, data.duration)
                ELSE LibBook(data.title, data.author, data.isbn)
    IN  IF "is_borrowed" \in DOMAIN data /\ data.is_borrowed
        THEN [book EXCEPT !.is_borrowed = TRUE]
        ELSE book

\* Library.load_from_json: the _books of a library that held bs before
load_from_json_value(bs, content) ==
    IF content = NoFile THEN bs
    ELSE [k \in DOMAIN content[1] |-> load_entry(json_load(content[1][k]))]

\* Library.add_book: both paths end without a return value, so the caller
\* receives None
Library_add_book(book) ==
    /\ IF \E k \in DOMAIN _books : _books[k].isbn = book.isbn
       THEN UNCHANGED <<_books, file>>
       ELSE /\ _books' = Append(_books, book)
            /\ file' = save_to_json_value(_books')
    /\ last' = Call("Library.add_book", "None")
    /\ UNCHANGED <<books, members, records, fk_enforced, tasks>>

\* mutant: delete_book reports True for a stored isbn and keeps the book
Library_delete_book_keep(isbn) ==
    /\ last' = Call("Library.delete_book",
                    IF \E k \in DOMAIN _books : _books[k].isbn = isbn
                    THEN "True" ELSE "False")
    /\ UNCHANGED <<books, members, records, fk_enforced, tasks, _books, file>>

\* Library.delete_book(isbn) -> bool, as main.py calls it: the book of that
\* isbn is removed and the file rewritten
Library_delete_book(isbn) ==
    /\ IF \E k \in DOMAIN _books : _books[k].isbn = isbn
       THEN /\ _books' = SelectSeq(_books, LAMBDA b : b.isbn # isbn)
            /\ file' = save_to_json_value(_books')
            /\ last' = Call("Library.delete_book", "True")
       ELSE /\ UNCHANGED <<_books, file>>
            /\ last' = Call("Library.delete_book", "False")
    /\ UNCHANGED <<books, members, records, fk_enforced, tasks>>

\* str.lower on the titles in use
str_lower(text) ==
    CASE text = "The Lord of the Rings" -> "the lord of the rings"
      [] text = "THE LORD OF THE RINGS" -> "the lord of the rings"
      [] text = "Becoming" -> "becoming"
      [] text = "BECOMING" -> "becoming"
      [] OTHER -> text

\* the titles handed to Library.find_book
FindTitles == {"1984", "BECOMING", "Dune"}

\* Library.find_book(title, isbn), an omitted argument being None (<<>>): the
\* test of the first stored book evaluates title.lower(), which raises
\* AttributeError when title is None
find_book(bs, title, isbn) ==
    IF bs = <<>> THEN [raised |-> "", book |-> <<>>]
    ELSE IF title = <<>> THEN [raised |-> "AttributeError", book |-> <<>>]
    ELSE LET hits == {k \in DOMAIN bs :
                         \/ str_lower(bs[k].title) = str_lower(title[1])
                         \/ isbn # <<>> /\ bs[k].isbn = isbn[1]}
         IN  IF hits = {} THEN [raised |-> "", book |-> <<>>]
             ELSE [raised |-> "",
                   book |-> <<bs[CHOOSE k \in hits : \A h \in hits : k <= h]>>]

\* a call of Library.find_book
Library_find_book(title, isbn) ==
    /\ last' = [op |-> "Library.find_book", title |-> title, isbn |-> isbn,
                result |-> find_book(_books, title, isbn)]
    /\ UNCHANGED <<books, members, records, fk_enforced, tasks, _books, file>>

\* mutant: borrow_book sets the flag whatever its value and never raises
Book_borrow_book_unguarded(book) ==
    [raised |-> "", book |-> [book EXCEPT !.is_borrowed = TRUE]]

\* Book.borrow_book: the exception raised, if any, and the object afterwards
Book_borrow_book_value(book) ==
    IF ~book.is_borrowed
    THEN [raised |-> "", book |-> [book EXCEPT !.is_borrowed = TRUE]]
    ELSE [raised |-> "ValueError", book |-> book]

\* Book.return_book: the exception raised, if any, and the object afterwards
Book_return_book_value(book) ==
    IF book.is_borrowed
    THEN [raised |-> "", book |-> [book EXCEPT !.is_borrowed = FALSE]]
    ELSE [raised |-> "ValueError", book |-> book]

\* Book.borrow_book on a stored object
Book_borrow_book(k) ==
    /\ k \in DOMAIN _books
    /\ LET r == Book_borrow_book_value(_books[k])
       IN  /\ _books' = [_books EXCEPT ![k] = r.book]
           /\ last' = Call("Book.borrow_book",
                           IF r.raised = "" THEN "None" ELSE r.raised)
    /\ UNCHANGED <<books, members, records, fk_enforced, tasks, file>>

\* Book.return_book on a stored object
Book_return_book(k) ==
    /\ k \in DOMAIN _books
    /\ LET r == Book_return_book_value(_books[k])
       IN  /\ _books' = [_books EXCEPT ![k] = r.book]
           /\ last' = Call("Book.return_book",
                           IF r.raised = "" THEN "None" ELSE r.raised)
    /\ UNCHANGED <<books, members, records, fk_enforced, tasks, file>>

\* Library.save_to_json(self.json_path)
save_to_json ==
    /\ file' = save_to_json_value(_books)
    /\ UNCHANGED <<books, members, records, fk_enforced, last, tasks, _books>>

\* Library.load_from_json(self.json_path)
load_from_json ==
    /\ _books' = load_from_json_value(_books, file)
    /\ UNCHANGED <<books, members, records, fk_enforced, last, tasks, file>>

\* Library.__init__ on the same json_path: a fresh Library
Library_init ==
    /\ _books' = load_from_json_value(<<>>, file)
    /\ UNCHANGED <<books, members, records, fk_enforced, last, tasks, file>>

NextLib ==
    \/ \E book \in LibInputs : Library_add_book(book)
    \/ \E isbn \in Isbns : Library_delete_book(isbn)
    \/ \E title \in Optional(FindTitles), isbn \in Optional(Isbns) :
          Library_find_book(title, isbn)
    \/ \E k \in 1..MaxIsbn : Book_borrow_book(k)
    \/ \E k \in 1..MaxIsbn : Book_return_book(k)
    \/ save_to_json
    \/ load_from_json
    \/ Library_init

SpecLib == Init /\ [][NextLib]_vars

\* JSON catalogs found on disk by Library.__init__: files written by other
\* versions of the program or by hand, whose entries may lack the "type"
\* member or carry a value load_from_json does not know
JsonString(text) == [json |-> "string", text |-> text, number |-> 0]
JsonNumber(number) == [json |-> "number", text |-> "", number |-> number]
JsonBool(bool) ==
    [json |-> IF bool THEN "true" ELSE "false", text |-> "", number |-> 0]

CatalogEntries(isbn) ==
    UNION {
        {[title |-> JsonString("Dune"), author |-> JsonString("Frank Herbert"),
          isbn |-> JsonString(isbn), is_borrowed |-> JsonBool(b)]}
        \cup {[type |-> JsonString(t), title |-> JsonString("Dune"),
                author |-> JsonString("Frank Herbert"),
                isbn |-> JsonString(isbn), is_borrowed |-> JsonBool(b)] :
                t \in {"Book", "Magazine"}}
        \cup {[type |-> JsonString("EBook"), title |-> JsonString("1984"),
                author |-> JsonString("George Orwell"),
                isbn |-> JsonString(isbn), is_borrowed |-> JsonBool(b),
                file_format |-> JsonString("EPUB")]}
        \cup {[type |-> JsonString("AudioBook"),
                title |-> JsonString("Becoming"),
                author |-> JsonString("Michelle Obama"),
                isbn |-> JsonString(isbn), is_borrowed |-> JsonBool(b),
                duration |-> JsonNumber(780)]}
        : b \in BOOLEAN}

CatalogFiles ==
    {NoFile}
    \cup {<<entries>> : entries \in
            UNION {{f \in [1..n -> UNION {CatalogEntries(i) : i \in Isbns}] :
                       \A k \in 1..n : f[k] \in CatalogEntries(k)} :
                   n \in 0..MaxIsbn}}

InitLoad ==
    /\ books = <<>>
    /\ members = {}
    /\ records = <<>>
    /\ fk_enforced \in BOOLEAN
    /\ last = Call("none", "none")
    /\ tasks = [t \in Tasks |-> IdleTask]
    /\ _books = <<>>
    /\ file \in CatalogFiles

NextLoad ==
    \/ Library_init
    \/ load_from_json

SpecLoad == InitLoad /\ [][NextLoad]_vars

\* ================================================================= claims
\* vocabulary of the claims, stated on the tables directly
ActiveIds(rs, isbn) ==
    {k \in DOMAIN rs : rs[k].isbn = isbn /\ rs[k].return_date = <<>>}
ActiveCount(rs, isbn) == Cardinality(ActiveIds(rs, isbn))
LoansOf(rs, member_id, isbn) ==
    {k \in ActiveIds(rs, isbn) : rs[k].member_id = member_id}
Cataloged(bs, isbn) == \E k \in DOMAIN bs : bs[k].isbn = isbn
StatusOf(bs, isbn) == bs[CHOOSE k \in DOMAIN bs : bs[k].isbn = isbn].status
Raised(e) == last.result = e

\* C1: with the service calls executed one at a time, every isbn has at most
\* one borrow record whose return_date is null.
C1_AtMostOneActiveLoan == \A isbn \in Isbns : ActiveCount(records, isbn) <= 1

\* an isbn borrowed again after an earlier loan of it was closed
C1_Witness ==
    \E isbn \in Isbns :
        /\ ActiveCount(records, isbn) = 1
        /\ \E k \in DOMAIN records :
              records[k].isbn = isbn /\ records[k].return_date # <<>>

\* C2: after completed service calls a cataloged book has status "borrowed"
\* exactly when an active borrow record exists for its isbn.
C2_StatusMirrorsLedger ==
    \A k \in DOMAIN books :
        (books[k].status = "borrowed") <=> (ActiveCount(records, books[k].isbn) >= 1)

\* the postcondition of a successful borrow_book(member_id, isbn)
BorrowDone(member_id, isbn) ==
    /\ last'.result = "True"
    /\ Cataloged(books', isbn) /\ StatusOf(books', isbn) = "borrowed"
    /\ ActiveCount(records', isbn) = 1
    /\ \A k \in ActiveIds(records', isbn) : records'[k].member_id = member_id

\* C3: of two borrow_book calls for the same available isbn whose repository
\* steps interleave, at most one succeeds, and at most one active borrow
\* record exists for the isbn once both have completed.
C3_ConcurrentBorrowExclusive ==
    \A t1, t2 \in Tasks :
        (/\ t1 # t2
         /\ tasks[t1].op = "borrow_book" /\ tasks[t2].op = "borrow_book"
         /\ tasks[t1].isbn = tasks[t2].isbn
         /\ tasks[t1].fresh /\ tasks[t2].fresh
         /\ t2 \in tasks[t1].overlap
         /\ tasks[t1].pc = "done" /\ tasks[t2].pc = "done")
        => (/\ ~(tasks[t1].result = "True" /\ tasks[t2].result = "True")
            /\ ActiveCount(records, tasks[t1].isbn) <= 1)

\* C4 as claimed: borrow_book(member_id, isbn), for any member_id, on a
\* cataloged available book without active record returns true, sets the
\* status to "borrowed" and leaves exactly one active record, of member_id.
C4_BorrowSucceedsAnyMember ==
    [][\A member_id \in MemberIds, isbn \in Isbns, t \in 1..MaxClock :
        (/\ last'.op = "borrow_book"
         /\ Cataloged(books, isbn) /\ StatusOf(books, isbn) = "available"
         /\ ActiveCount(records, isbn) = 0
         /\ borrow_book(member_id, isbn, t))
        => BorrowDone(member_id, isbn)]_vars

\* C4 amended: the same for the member_id of a registered member.
C4_BorrowSucceeds ==
    [][\A member_id \in MemberIds, isbn \in Isbns, t \in 1..MaxClock :
        (/\ last'.op = "borrow_book"
         /\ member_id \in members
         /\ Cataloged(books, isbn) /\ StatusOf(books, isbn) = "available"
         /\ ActiveCount(records, isbn) = 0
         /\ borrow_book(member_id, isbn, t))
        => BorrowDone(member_id, isbn)]_vars

\* a registered member holds the only active loan of a borrowed book
C4_Witness ==
    /\ last = Call("borrow_book", "True")
    /\ \E isbn \in Isbns, member_id \in members :
          /\ Cataloged(books, isbn) /\ StatusOf(books, isbn) = "borrowed"
          /\ ActiveCount(records, isbn) = 1
          /\ LoansOf(records, member_id, isbn) # {}

\* C5: borrow_book on a cataloged book that is not "available", or that has
\* an active borrow record, raises an invalid-state error and changes neither
\* the catalog nor the borrow records.
C5_BorrowRejected ==
    [][\A member_id \in MemberIds, isbn \in Isbns, t \in 1..MaxClock :
        (/\ last'.op = "borrow_book"
         /\ Cataloged(books, isbn)
         /\ (StatusOf(books, isbn) # "available" \/ ActiveCount(records, isbn) >= 1)
         /\ borrow_book(member_id, isbn, t))
        => (/\ last'.result \in {ErrNotAvailable, ErrAlreadyBorrowed}
            /\ books' = books /\ records' = records)]_vars

\* the ledger guard fired: the book reads "available" although a loan is open
C5_Witness ==
    /\ last = Call("borrow_book", ErrAlreadyBorrowed)
    /\ \E isbn \in Isbns :
          /\ Cataloged(books, isbn) /\ StatusOf(books, isbn) = "available"
          /\ ActiveCount(records, isbn) = 1

\* C6: return_book(member_id, isbn) on a cataloged book without an active
\* record of that member and isbn returns false and changes neither the
\* book's status nor any borrow record.
C6_ReturnWithoutLoan ==
    [][\A member_id \in MemberIds, isbn \in Isbns, t \in 1..MaxClock :
        (/\ last'.op = "return_book"
         /\ Cataloged(books, isbn)
         /\ LoansOf(records, member_id, isbn) = {}
         /\ return_book(member_id, isbn, t))
        => (/\ last'.result = "False"
            /\ books' = books /\ records' = records)]_vars

\* a return was refused while another member's loan of a cataloged book is open
C6_Witness ==
    /\ last = Call("return_book", "False")
    /\ \E isbn \in Isbns :
          /\ Cataloged(books, isbn) /\ StatusOf(books, isbn) = "borrowed"
          /\ ActiveCount(records, isbn) = 1

\* the postcondition of a successful return_book(member_id, isbn)
ReturnDone(member_id, isbn) ==
    /\ last'.result = "True"
    /\ \A k \in LoansOf(records, member_id, isbn) : records'[k].return_date # <<>>
    /\ Cataloged(books', isbn) /\ StatusOf(books', isbn) = "available"
    /\ ActiveCount(records', isbn) = 0

\* C7 as claimed: return_book(member_id, isbn) with a matching active record
\* returns true, closes the record and sets the book "available", no active
\* record remaining for the isbn.
C7_ReturnSucceedsAnyBook ==
    [][\A member_id \in MemberIds, isbn \in Isbns, t \in 1..MaxClock :
        (/\ last'.op = "return_book"
         /\ LoansOf(records, member_id, isbn) # {}
         /\ return_book(member_id, isbn, t))
        => ReturnDone(member_id, isbn)]_vars

\* C7 amended: the same when the isbn is still in the catalog.
C7_ReturnSucceeds ==
    [][\A member_id \in MemberIds, isbn \in Isbns, t \in 1..MaxClock :
        (/\ last'.op = "return_book"
         /\ Cataloged(books, isbn)
         /\ LoansOf(records, member_id, isbn) # {}
         /\ return_book(member_id, isbn, t))
        => ReturnDone(member_id, isbn)]_vars

\* a loan was closed and its book is available again
C7_Witness ==
    /\ last = Call("return_book", "True")
    /\ \E k \in DOMAIN records :
          /\ records[k].return_date # <<>>
          /\ Cataloged(books, records[k].isbn)
          /\ StatusOf(books, records[k].isbn) = "available"
          /\ ActiveCount(records, records[k].isbn) = 0

\* C8: for every Book value add_book accepts, get_book(isbn) right after the
\* successful add_book returns a book whose status is "available".
C8_NewBookAvailable ==
    [][\A book \in BookInputs :
        (last'.result = "Book" /\ add_book(book))
        => (/\ get_book_value(books', book.isbn) # <<>>
            /\ get_book_value(books', book.isbn)[1].status = "available")]_vars

\* C9: add_book with an isbn already cataloged raises the duplicate error,
\* the catalog keeps its size and the stored book keeps title, author, status.
C9_DuplicateRejected ==
    [][\A book \in BookInputs :
        (/\ last'.op = "add_book"
         /\ Cataloged(books, book.isbn)
         /\ add_book(book))
        => (/\ last'.result = ErrDuplicate
            /\ Len(books') = Len(books)
            /\ \A k \in DOMAIN books :
                  books[k].isbn = book.isbn => books'[k] = books[k])]_vars

\* a second add_book was refused and the catalog holds a book
C9_Witness == last = Call("add_book", ErrDuplicate) /\ books # <<>>

\* C10: borrow_book with the member_id of no registered member fails with a
\* not-found error, creates no borrow record and leaves the status unchanged.
C10_UnknownMemberNotFound ==
    [][\A member_id \in MemberIds, isbn \in Isbns, t \in 1..MaxClock :
        (/\ last'.op = "borrow_book"
         /\ member_id \notin members
         /\ borrow_book(member_id, isbn, t))
        => (/\ last'.result = ErrNotFound
            /\ books' = books /\ records' = records)]_vars

\* C11: borrow_book and return_book on an isbn that is not in the catalog both
\* raise the not-found error and change neither the catalog nor any borrow
\* record (return_book raises here, it does not return false).
C11_UnknownIsbnNotFound ==
    [][\A member_id \in MemberIds, isbn \in Isbns, t \in 1..MaxClock :
        (/\ last'.op \in {"borrow_book", "return_book"}
         /\ ~Cataloged(books, isbn)
         /\ (borrow_book(member_id, isbn, t) \/ return_book(member_id, isbn, t)))
        => (/\ last'.result = ErrNotFound
            /\ books' = books /\ records' = records)]_vars

\* return_book raised not-found for an isbn that is gone from the catalog
\* while a loan of it is still open
C11_Witness ==
    /\ last = Call("return_book", ErrNotFound)
    /\ \E isbn \in Isbns :
          ~Cataloged(books, isbn) /\ ActiveCount(records, isbn) = 1

\* C12: delete_book(isbn) removes the book and returns true exactly when it
\* was cataloged, returns false and changes nothing otherwise, and in both
\* cases leaves every borrow record unchanged.
C12_DeleteExactlyWhenPresent ==
    [][\A isbn \in Isbns :
        (last'.op = "delete_book" /\ delete_book(isbn))
        => (/\ records' = records
            /\ IF Cataloged(books, isbn)
               THEN /\ last'.result = "True"
                    /\ ~Cataloged(books', isbn)
                    /\ Len(books') = Len(books) - 1
               ELSE /\ last'.result = "False"
                    /\ books' = books)]_vars

\* C13: the catalog holds at most one book per isbn in every reachable state,
\* also when two add_book calls for the same isbn interleave between the
\* existence check and the insert: at most one of them adds a row.
C13_OneBookPerIsbn ==
    /\ \A isbn \in Isbns :
          Cardinality({k \in DOMAIN books : books[k].isbn = isbn}) <= 1
    /\ \A t1, t2 \in Tasks :
          (/\ t1 # t2
           /\ tasks[t1].op = "add_book" /\ tasks[t2].op = "add_book"
           /\ tasks[t1].isbn = tasks[t2].isbn
           /\ t2 \in tasks[t1].overlap)
          => ~(tasks[t1].result = "Book" /\ tasks[t2].result = "Book")

\* two add_book calls for one isbn both passed the existence check; one
\* inserted the row and the insert of the other was refused
C13_Witness ==
    \E t1, t2 \in Tasks :
        /\ tasks[t1].op = "add_book" /\ tasks[t2].op = "add_book"
        /\ tasks[t1].isbn = tasks[t2].isbn
        /\ t2 \in tasks[t1].overlap
        /\ tasks[t1].pc = "done" /\ tasks[t1].result = "Book"
        /\ tasks[t2].pc = "done" /\ tasks[t2].result = IntegrityError
        /\ Cataloged(books, tasks[t1].isbn)

\* C14: POST /borrow and POST /return answer 404 when the isbn is not in the
\* catalog and 400 only for state errors (not available, already borrowed);
\* POST /return answers 404 when the book has no matching active loan.
C14_NotFoundIs404 ==
    /\ last.op = "borrow_book" =>
          /\ last.result = ErrNotFound => borrow_book_status(last.result) = 404
          /\ borrow_book_status(last.result) = 400
                => last.result \in {ErrNotAvailable, ErrAlreadyBorrowed}
    /\ last.op = "return_book" =>
          /\ last.result = ErrNotFound => return_book_status(last.result) = 404
          /\ last.result = "False" => return_book_status(last.result) = 404
          /\ return_book_status(last.result) = 400
                => last.result \in {ErrNotAvailable, ErrAlreadyBorrowed}

\* C15: an exception raised while handling POST /books that is neither a
\* ValueError nor an HTTPException is answered with status 500, not 400.
C15_UnexpectedIs500 ==
    \A t \in Tasks :
        (/\ tasks[t].pc = "done" /\ tasks[t].op = "add_book"
         /\ tasks[t].result \notin ValueErrors \cup {"Book"})
        => add_book_status(tasks[t].result) = 500

\* some request to OpenLibrary made by the fetch failed
FetchError(up) ==
    \/ up.isbn_response # "ok"
    \/ up.author \in {"RequestError", "JSONDecodeError"}

\* the request failed without reaching the service or the catalog
AddRefused ==
    /\ last'.status >= 400
    /\ last'.calls = <<>>
    /\ books' = books

\* C16 as claimed: when the metadata fetch of POST /books fails (not found,
\* unreachable or any other fetch error) the request fails, add_book is not
\* invoked and the catalog is unchanged.
C16_AnyFetchErrorRefused ==
    [][\A isbn \in Isbns, up \in Upstreams :
        (/\ last'.op = "POST /books"
         /\ FetchError(up)
         /\ post_books(isbn, up))
        => AddRefused]_vars

\* C16 amended: the same when the lookup of the isbn itself fails, which is
\* when fetch_book_from_api raises.
C16_IsbnLookupErrorRefused ==
    [][\A isbn \in Isbns, up \in Upstreams :
        (/\ last'.op = "POST /books"
         /\ up.isbn_response # "ok"
         /\ post_books(isbn, up))
        => AddRefused]_vars

\* a lookup that was not found was answered 400 on a catalog that holds books
C16_Witness ==
    /\ last = Response("POST /books", 400, ErrNotFound, <<>>)
    /\ books # <<>>

\* text contains part, compared case-insensitively
Contains(text, part) ==
    \E i \in 0..Len(text) :
        /\ i + Len(part) <= Len(text)
        /\ \A k \in 1..Len(part) :
              LowerChar(text[i + k]) = LowerChar(part[k])

\* the elements of a list
Range(seq) == {seq[k] : k \in DOMAIN seq}

\* C17: get_books(author=a, title=t, status=s) returns exactly the catalog
\* books whose author contains a and whose title contains t, compared
\* case-insensitively, and whose status equals s exactly, an omitted filter
\* imposing no constraint.
C17_FilterIsSubstringMatch ==
    (last.op = "get_books" /\ last.skip = 0 /\ last.limit >= Len(books))
    => /\ Range(last.result) =
            {r \in Range(books) :
                /\ last.author # <<>> => Contains(Chars(r.author), last.author[1])
                /\ last.title # <<>> => Contains(Chars(r.title), last.title[1])
                /\ last.status # <<>> => r.status = last.status[1]}
       /\ \A i, j \in DOMAIN last.result :
             last.result[i] = last.result[j] => i = j

\* C18: get_books(skip, limit) returns the elements at positions skip to
\* skip+limit-1 of the catalog taken in insertion order, at most limit books.
C18_PageOfInsertionOrder ==
    (/\ last.op = "get_books"
     /\ last.author = <<>> /\ last.title = <<>> /\ last.status = <<>>)
    => /\ Len(last.result) <= last.limit
       /\ last.result =
            [k \in 1..(Min(last.skip + last.limit, Len(books)) - last.skip) |->
                books[last.skip + k]]

\* the borrow records a history query is to return
Wanted(op, key, active_only) ==
    {k \in DOMAIN records :
        /\ IF op = "get_by_member_id" THEN records[k].member_id = key
           ELSE records[k].isbn = key
        /\ active_only => records[k].return_date = <<>>}

\* C19: get_by_member_id and get_by_isbn return exactly the borrow records
\* of that member (resp. isbn), with active_only=true those whose return_date
\* is null and with active_only=false all of them, ordered by borrow_date
\* descending.
C19_HistoryNewestFirst ==
    last.op \in {"get_by_member_id", "get_by_isbn"}
    => /\ Len(last.result) =
            Cardinality(Wanted(last.op, last.key, last.active_only))
       /\ {r.id : r \in Range(last.result)} =
            Wanted(last.op, last.key, last.active_only)
       /\ \A k \in DOMAIN last.result :
             last.result[k] = records[last.result[k].id]
       /\ \A i, j \in DOMAIN last.result :
             i < j => last.result[i].borrow_date >= last.result[j].borrow_date

\* a member's history lists a later loan before an earlier, closed one
C19_Witness ==
    /\ last.op = "get_by_member_id" /\ ~last.active_only
    /\ Len(last.result) = 2
    /\ last.result[1].borrow_date > last.result[2].borrow_date
    /\ last.result[1].id > last.result[2].id
    /\ last.result[2].return_date # <<>>

C21_AddBookReturnsBool ==
    [][\A book \in LibInputs :
        Library_add_book(book) =>
            IF \E k \in DOMAIN _books : _books[k].isbn = book.isbn
            THEN last'.result = "False" /\ _books' = _books
            ELSE last'.result = "True" /\ Len(_books') = Len(_books) + 1]_vars

\* C22: Library.delete_book(isbn) removes the book of that isbn, total_books
\* drops by one and the call returns True when the book is present; it
\* returns False and leaves the library unchanged when no book has that isbn.
C22_DeleteBookReturnsBool ==
    [][\A isbn \in Isbns :
        (last'.op = "Library.delete_book" /\ Library_delete_book(isbn)) =>
            IF \E k \in DOMAIN _books : _books[k].isbn = isbn
            THEN /\ last'.result = "True"
                 /\ Len(_books') = Len(_books) - 1
                 /\ \A k \in DOMAIN _books' : _books'[k].isbn # isbn
                 /\ \A k \in DOMAIN _books :
                       _books[k].isbn # isbn
                         => \E j \in DOMAIN _books' : _books'[j] = _books[k]
            ELSE last'.result = "False" /\ _books' = _books]_vars

\* one of two stored books was deleted
C22_Witness ==
    /\ last = Call("Library.delete_book", "True")
    /\ Len(_books) = 1

\* C23: find_book(isbn=X) without a title returns the stored book whose isbn
\* is X, find_book(title=T) returns a stored book whose title equals T
\* ignoring case, and each returns None without raising when no stored book
\* matches.
C23_FindBookByIsbnOrTitle ==
    (last.op = "Library.find_book" /\ (last.title = <<>>) # (last.isbn = <<>>)) =>
        /\ last.result.raised = ""
        /\ (last.title = <<>> /\ last.isbn # <<>>) =>
              IF \E k \in DOMAIN _books : _books[k].isbn = last.isbn[1]
              THEN /\ last.result.book # <<>>
                   /\ last.result.book[1].isbn = last.isbn[1]
                   /\ \E k \in DOMAIN _books : _books[k] = last.result.book[1]
              ELSE last.result.book = <<>>
        /\ (last.title # <<>> /\ last.isbn = <<>>) =>
              IF \E k \in DOMAIN _books :
                     str_lower(_books[k].title) = str_lower(last.title[1])
              THEN /\ last.result.book # <<>>
                   /\ str_lower(last.result.book[1].title)
                        = str_lower(last.title[1])
                   /\ \E k \in DOMAIN _books : _books[k] = last.result.book[1]
              ELSE last.result.book = <<>>

\* C27: Book.borrow_book succeeds only when is_borrowed is false and sets it
\* to true, Book.return_book succeeds only when is_borrowed is true and sets
\* it to false; in the other case each raises ValueError and leaves
\* is_borrowed unchanged.
C27_BorrowFlagAlternates ==
    [][\A k \in DOMAIN _books :
        /\ (last'.op = "Book.borrow_book" /\ Book_borrow_book(k)) =>
              IF ~_books[k].is_borrowed
              THEN last'.result = "None" /\ _books'[k].is_borrowed
              ELSE last'.result = "ValueError" /\ _books'[k].is_borrowed
        /\ (last'.op = "Book.return_book" /\ Book_return_book(k)) =>
              IF _books[k].is_borrowed
              THEN last'.result = "None" /\ ~_books'[k].is_borrowed
              ELSE last'.result = "ValueError" /\ ~_books'[k].is_borrowed]_vars

\* a second borrow_book of a borrowed book raised ValueError
C27_Witness ==
    /\ last = Call("Book.borrow_book", "ValueError")
    /\ \E k \in DOMAIN _books : _books[k].is_borrowed

\* C26: loading a JSON catalog dispatches on the 'type' member of each entry:
\* 'EBook' builds an EBook with its file_format, 'AudioBook' an AudioBook with
\* its duration, an absent or any other type a plain Book; a missing file
\* leaves the library empty.
C26_LoadDispatchesOnType ==
    [][Library_init =>
        IF file = NoFile THEN _books' = <<>>
        ELSE /\ Len(_books') = Len(file[1])
             /\ \A k \in DOMAIN file[1] :
                  LET entry == file[1][k]
                      type == IF "type" \in DOMAIN entry
                              THEN <<entry.type.text>> ELSE <<>>
                  IN  /\ _books'[k].title = entry.title.text
                      /\ _books'[k].isbn = entry.isbn.text
                      /\ IF type = <<"EBook">>
                         THEN /\ _books'[k].class = "EBook"
                              /\ _books'[k].file_format
                                   = entry.file_format.text
                         ELSE IF type = <<"AudioBook">>
                         THEN /\ _books'[k].class = "AudioBook"
                              /\ _books'[k].duration = entry.duration.number
                         ELSE _books'[k].class = "Book"]_vars

\* a file holding an entry without type and an entry of an unknown type was
\* loaded
C26_Witness ==
    /\ file # NoFile
    /\ Len(file[1]) = 2 /\ Len(_books) = 2
    /\ "type" \notin DOMAIN file[1][1]
    /\ "type" \in DOMAIN file[1][2]
    /\ file[1][2].type.text = "Magazine"
    /\ _books[1].class = "Book" /\ _books[2].class = "Book"

\* C24: under any interleaving of the repository steps of concurrent
\* borrow_book and return_book calls on the same isbn, once all calls have
\* completed the status of the book is "borrowed" exactly when an active
\* borrow record for the isbn exists.
C24_ConcurrentStatusMirrorsLedger ==
    (/\ \A t \in Tasks : ~InFlight(t)
     /\ \A t \in Tasks : tasks[t].op \in {"none", "borrow_book", "return_book"})
    => \A isbn \in Isbns :
          Cataloged(books, isbn)
            => ((StatusOf(books, isbn) = "borrowed")
                  <=> (ActiveCount(records, isbn) >= 1))

\* the borrow records of an isbn, active or closed
RecordsOf(rs, isbn) == {k \in DOMAIN rs : rs[k].isbn = isbn}

\* C25: the borrow ledger is append-only: no operation removes a borrow
\* record, and a return_date once set is never reset to null or overwritten
\* by a later return_book; after add, borrow and return of one book it has
\* 0 active records and exactly 1 record in all.
C25_LedgerAppendOnly ==
    [][/\ Len(records') >= Len(records)
       /\ \A k \in DOMAIN records :
            /\ records'[k].id = records[k].id
            /\ records'[k].member_id = records[k].member_id
            /\ records'[k].isbn = records[k].isbn
            /\ records'[k].borrow_date = records[k].borrow_date
            /\ records[k].return_date # <<>>
                  => records'[k].return_date = records[k].return_date
       /\ \A member_id \in MemberIds, isbn \in Isbns, t \in 1..MaxClock :
            (/\ last'.op = "return_book"
             /\ Cataloged(books, isbn)
             /\ Cardinality(RecordsOf(records, isbn)) = 1
             /\ LoansOf(records, member_id, isbn) # {}
             /\ return_book(member_id, isbn, t))
            => (/\ ActiveCount(records', isbn) = 0
                /\ Cardinality(RecordsOf(records', isbn)) = 1)]_vars

\* a return_book came after the loan was closed, at a later time, and the
\* closed record kept its return_date
C25_Witness ==
    /\ last = Call("return_book", "False")
    /\ \E k \in DOMAIN records :
          /\ records[k].return_date # <<>>
          /\ records[k].return_date[1] < MaxClock
          /\ Cataloged(books, records[k].isbn)

\* C29 as claimed: every active borrow record stays closable by its
\* borrower: in every reachable state, also after delete_book was applied to
\* the isbn while on loan, return_book(m, i) for an active record of member m
\* and isbn i succeeds and sets the return_date of the record.
C29_ActiveRecordClosableAlways ==
    \A k \in DOMAIN records :
        records[k].return_date = <<>>
        => \A t \in utcnow(records) :
              LET r == return_book_value(books, records, records[k].member_id,
                                         records[k].isbn, t)
              IN  r.result = "True" /\ r.records[k].return_date # <<>>

\* C29 amended: the same for the active records whose book is still in the
\* catalog.
C29_ActiveRecordClosable ==
    \A k \in DOMAIN records :
        (records[k].return_date = <<>> /\ Cataloged(books, records[k].isbn))
        => \A t \in utcnow(records) :
              LET r == return_book_value(books, records, records[k].member_id,
                                         records[k].isbn, t)
              IN  r.result = "True" /\ r.records[k].return_date # <<>>

\* delete_book was applied to a book on loan and refused by the foreign key:
\* the book is cataloged and its record active
C29_Witness ==
    /\ last = Call("delete_book", IntegrityError)
    /\ \E k \in DOMAIN records :
          records[k].return_date = <<>> /\ Cataloged(books, records[k].isbn)

\* C30: no cataloged book is stuck as borrowed: in every state reachable
\* through add_book, borrow_book, return_book and delete_book, each book with
\* status "borrowed" has a member whose return_book call succeeds and sets
\* the status back to "available".
C30_NoBookStuckBorrowed ==
    \A k \in DOMAIN books :
        books[k].status = "borrowed"
        => \E member_id \in MemberIds, t \in utcnow(records) :
              LET r == return_book_value(books, records, member_id,
                                         books[k].isbn, t)
              IN  /\ r.result = "True"
                  /\ StatusOf(r.books, books[k].isbn) = "available"

\* C28: count_books(author, title, status) equals the number of books
\* get_books returns for the same filters with skip=0 and no effective limit,
\* so the total of GET /books is never smaller than the number of returned
\* items and does not depend on skip or limit.
C28_TotalCountsAllMatches ==
    [][last'.op = "GET /books" =>
        /\ last'.total >= Len(last'.items)
        /\ (last'.skip = 0 /\ last'.limit >= Len(books'))
              => last'.total = Len(last'.items)
        /\ (/\ last.op = "GET /books"
            /\ last.author = last'.author /\ last.title = last'.title
            /\ last.status = last'.status)
              => last'.total = last.total]_vars

\* the second page of a filtered listing: no item left, the total still 1
C28_Witness ==
    /\ last.op = "GET /books"
    /\ Len(books) = 2
    /\ last.status # <<>> /\ last.skip = 1
    /\ last.items = <<>> /\ last.total = 1

====
